---- MODULE Spec2Model ----
(***************************************************************************)
(* Model of the ratelimit crate: the two GCRA admission policies of        *)
(* src/src/gcra.rs (LeakyBucket, VirtualScheduling), the decorator built   *)
(* on them, and the clock of src/src/clock.rs.                            *)
(*                                                                         *)
(* Arithmetic is on mathematical integers: the model keeps every u64 far   *)
(* below 2^63 (no product dur_in_ms * rate overflows, no cast to i64       *)
(* changes a value), and in the specifications below LeakyBucket::pass     *)
(* always reads now >= lct (the clock only moves forward and is read       *)
(* under the lock), so `now - state.lct` never wraps.                      *)
(***************************************************************************)
EXTENDS Integers, Sequences, FiniteSets, TLC

\* ------------------------------------------------------------------ bounds
MaxRate == 2
MaxBurst == 2
MaxGap == 2
MaxTolerance == 1
MaxCalls == 5
MaxClock == 4000
MaxClockVS == 5

\* milliseconds per second, the divisor of LeakyBucket::pass
MsPerSec == 1000

Callers == {1, 2}
Reqs == {7, 8}
\* clock readings a MockClock is constructed with, and the steps of forward()
InitClocks == {0, 2000}
Durations == {500, 1000}
InitClocksVS == {0, 2}
DurationsVS == {1, 2}

VARIABLES
    policy,     \* "LB" | "VS": which Policy the instance is
    rate,       \* LeakyBucket.rate
    burst,      \* LeakyBucket.burst
    level,      \* LeakyBucket.state.level
    lct,        \* LeakyBucket.state.lct
    tolerance,  \* VirtualScheduling.tolerance
    gap,        \* VirtualScheduling.gap
    tat,        \* VirtualScheduling.tat
    clock,      \* MockClock.0 (or the system time)
    lock,       \* holder of the instance's Mutex, 0 when free
    pc,         \* position of each caller
    now,        \* each caller's local `now`
    tmp,        \* each caller's decision, computed and not yet written back
    ret,        \* the bool pass() handed to g, until g has branched on it
    via,        \* "pass": direct call, "g": through the decorated closure
    req,        \* the request a caller handed to g
    out,        \* what the last call of g returned
    v,          \* the state captured by the wrapped f (its invocation count)
    calls,      \* number of pass() calls started
    last,       \* the most recent decision and the state it was taken on
    before,     \* the decision preceding `last` (kept for VirtualScheduling)
    ser,        \* the current run of decisions taken on one clock reading (LB)
    recent,     \* clock readings of the admissions of the last second (LB)
    stats       \* history of the decorated closure

vars == <<policy, rate, burst, level, lct, tolerance, gap, tat, clock, lock,
          pc, now, tmp, ret, via, req, out, v, calls, last, before, ser,
          recent, stats>>

cfgVars == <<policy, rate, burst, tolerance, gap>>
lbVars == <<level, lct>>
decVars == <<out, v>>
histVars == <<last, before, ser, recent>>

Max(a, b) == IF a >= b THEN a ELSE b
Min(a, b) == IF a <= b THEN a ELSE b

\* ------------------------------------------------------------- LeakyBucket
\* u64 arithmetic, unchecked in a release build, wraps modulo 2^64. Every
\* clock value and rate of the model lies below 2^13, and the word is scaled
\* to 20 bits: a wrapped interval still dwarfs every capacity, as in gcra.rs
WordModulus == 2^20

\* gcra.rs:80  let dur_in_ms = now - state.lct;
DurInMs(n, l) == (n - l) % WordModulus

\* a slip in gcra.rs:81: the division taken before the multiplication
LeakedDivFirst(n, l, r) == (DurInMs(n, l) \div MsPerSec) * r

\* gcra.rs:81  let leaked = dur_in_ms * self.rate / 1000;
Leaked(n, l, r) == ((DurInMs(n, l) * r) % WordModulus) \div MsPerSec

\* gcra.rs:82  let new_level = state.level as i64 - leaked as i64;
NewLevel(lv, n, l, r) == lv - Leaked(n, l, r)

\* a slip in gcra.rs:83: `>` for `>=`
LBRejectsStrict(lv, n, l, r, b) == NewLevel(lv, n, l, r) > r + b

\* gcra.rs:83  if new_level >= (self.rate + self.burst) as i64 { false }
LBRejects(lv, n, l, r, b) == NewLevel(lv, n, l, r) >= r + b

\* a slip in gcra.rs:86: the clamp at 0 left out
LBAdmitLevelNoClamp(lv, n, l, r) == NewLevel(lv, n, l, r) + 1

\* gcra.rs:86  state.level = std::cmp::max(0, new_level) as u64 + 1;
LBAdmitLevel(lv, n, l, r) == Max(0, NewLevel(lv, n, l, r)) + 1

\* gcra.rs:83-89: level after pass(), untouched when it rejects
LBNextLevel(lv, n, l, r, b) ==
    IF LBRejects(lv, n, l, r, b) THEN lv ELSE LBAdmitLevel(lv, n, l, r)

\* a slip in gcra.rs:83-89: `state.lct = now` hoisted above the test
LBNextLctAlways(lv, n, l, r, b) == n

\* gcra.rs:83-89: lct after pass(), `state.lct = now` only when it admits
LBNextLct(lv, n, l, r, b) == IF LBRejects(lv, n, l, r, b) THEN l ELSE n

\* a change of gcra.rs:64: the bucket built empty
LBInitLevelEmpty(b) == 0

\* gcra.rs:64  level: self.burst
LBInitLevel(b) == b

\* ------------------------------------------------------- VirtualScheduling
\* a slip in gcra.rs:141: `<=` for `<`
VSRejectsInclusive(t, n, tol) == n + tol <= t

\* gcra.rs:141  if now + self.tolerance < *tat { false }
VSRejects(t, n, tol) == n + tol < t

\* a slip in gcra.rs:144: now taken for max(tat, now)
VSAdmitTatFromNow(t, n, g) == n + g

\* a slip in gcra.rs:144: the max with now left out
VSAdmitTatNoMax(t, n, g) == t + g

\* gcra.rs:144  *tat = std::cmp::max(*tat, now) + self.gap;
VSAdmitTat(t, n, g) == Max(t, n) + g

\* gcra.rs:141-146: tat after pass(), untouched when it rejects
VSNextTat(t, n, tol, g) == IF VSRejects(t, n, tol) THEN t ELSE VSAdmitTat(t, n, g)

\* ----------------------------------------------------------------- history
NoDecision == [valid |-> FALSE, now |-> 0, ok |-> FALSE, level0 |-> 0,
               lct0 |-> 0, tat0 |-> 0]
NoSeries == [now |-> -1, prev |-> -1, level0 |-> 0, lct0 |-> 0, tat0 |-> 0,
             outs |-> <<>>]
NoTmp == [ok |-> FALSE, level |-> 0, lct |-> 0, tat |-> 0]

RECURSIVE DropOld(_, _)
DropOld(s, n) ==
    IF s = <<>> THEN <<>>
    ELSE IF Head(s) + MsPerSec <= n THEN DropOld(Tail(s), n) ELSE s

\* what the decision of caller p, with outcome ok, adds to the history: the
\* run of same-reading decisions and the admissions of the last second for a
\* LeakyBucket, the preceding decision for a VirtualScheduling
Record(p, ok) ==
    /\ last' = [valid |-> TRUE, now |-> now[p], ok |-> ok, level0 |-> level,
                lct0 |-> lct, tat0 |-> tat]
    /\ before' = IF policy = "VS" THEN last ELSE before
    /\ ser' = IF policy = "VS" THEN ser
              ELSE IF last.valid /\ last.now = now[p]
                THEN [ser EXCEPT !.outs = Append(@, ok)]
                ELSE [now |-> now[p],
                      prev |-> IF last.valid THEN last.now ELSE -1,
                      level0 |-> level, lct0 |-> lct, tat0 |-> tat,
                      outs |-> <<ok>>]
    /\ recent' = IF ok /\ policy = "LB"
                   THEN Append(DropOld(recent, now[p]), now[p])
                   ELSE recent

\* of the decorated closure g: the pass() calls made by its current call and
\* the admissions its calls have been given
NoStats == [passes |-> 0, gOk |-> 0]

\* ------------------------------------------------------------------ states
InitCommon ==
    /\ lock = 0
    /\ pc = [p \in Callers |-> "idle"]
    /\ now = [p \in Callers |-> 0]
    /\ tmp = [p \in Callers |-> NoTmp]
    /\ ret = [p \in Callers |-> "none"]
    /\ via = [p \in Callers |-> "pass"]
    /\ req = [p \in Callers |-> 0]
    /\ out = <<"none">>
    /\ v = 0
    /\ calls = 0
    /\ last = NoDecision
    /\ before = NoDecision
    /\ ser = NoSeries
    /\ recent = <<>>
    /\ stats = NoStats

\* LeakyBucketBuilder::build, gcra.rs:60-70, over a MockClock::new(c)
InitLB ==
    /\ policy = "LB"
    /\ rate \in 0..MaxRate
    /\ burst \in 0..MaxBurst
    /\ level = LBInitLevel(burst)
    /\ lct = 0
    /\ tolerance = 0 /\ gap = 0 /\ tat = 0
    /\ clock \in InitClocks
    /\ InitCommon

\* ----------------------------------------------------------------- actions
\* MockClock::forward, clock.rs:54-56 (LeakyBucket::forward, gcra.rs:94-96)
Forward(d) ==
    /\ clock + d <= (IF policy = "LB" THEN MaxClock ELSE MaxClockVS)
    /\ clock' = clock + d
    /\ UNCHANGED <<cfgVars, tmp, lbVars, tat, lock, pc, now, ret, via, req, decVars,
                   calls, histVars, stats>>

ForwardLB == policy = "LB" /\ \E d \in Durations : Forward(d)

\* a caller enters pass() directly
PassCall(p) ==
    /\ pc[p] = "idle"
    /\ calls < MaxCalls
    /\ calls' = calls + 1
    /\ via' = [via EXCEPT ![p] = "pass"]
    /\ pc' = [pc EXCEPT ![p] = IF policy = "LB" THEN "lock" ELSE "clock"]
    /\ UNCHANGED <<cfgVars, tmp, lbVars, tat, clock, lock, now, ret, req, decVars,
                   histVars, stats>>

\* a Mutex that excludes nobody
FreeAlways(holder) == TRUE

\* parking_lot::Mutex::lock (gcra.rs:78, gcra.rs:140) returns once no other
\* caller holds the guard
Free(holder) == holder = 0

\* gcra.rs:78  let mut state = self.state.lock();
LBLock(p) ==
    /\ policy = "LB"
    /\ pc[p] = "lock"
    /\ Free(lock)
    /\ lock' = p
    /\ pc' = [pc EXCEPT ![p] = "clock"]
    /\ UNCHANGED <<cfgVars, tmp, lbVars, tat, clock, now, ret, via, req, decVars,
                   calls, histVars, stats>>

\* gcra.rs:79  let now = self.clock.now();
LBNow(p) ==
    /\ policy = "LB"
    /\ pc[p] = "clock"
    /\ now' = [now EXCEPT ![p] = clock]
    /\ pc' = [pc EXCEPT ![p] = "decide"]
    /\ UNCHANGED <<cfgVars, tmp, lbVars, tat, clock, lock, ret, via, req, decVars,
                   calls, histVars, stats>>

\* pass() returns b: kept only while the closure g has yet to branch on it
Returned(p, b) == IF via[p] = "g" THEN [ret EXCEPT ![p] = b] ELSE ret

\* where a caller goes when pass() returns
AfterPass(p) == IF via[p] = "g" THEN "gret" ELSE "idle"

\* the closure's history when pass() hands ok to caller p
Counted(p, ok) ==
    IF via[p] = "g"
      THEN [stats EXCEPT !.passes = @ + 1, !.gOk = IF ok THEN @ + 1 ELSE @]
      ELSE stats

\* a slip in gcra.rs:83-90: the guard leaked on the rejecting path
ReleasedOnAdmitOnly(p, ok) == IF ok THEN 0 ELSE p

\* gcra.rs:84-90: the MutexGuard is dropped when pass() returns, whatever it
\* returns; the holder of the lock after caller p's pass() handed back ok
Released(p, ok) == 0

\* gcra.rs:80-90: the decision, the update, and the guard dropped on return
LBPass(p) ==
    /\ policy = "LB"
    /\ pc[p] = "decide"
    /\ lock = p
    /\ level' = LBNextLevel(level, now[p], lct, rate, burst)
    /\ lct' = LBNextLct(level, now[p], lct, rate, burst)
    /\ ret' = Returned(p, ~LBRejects(level, now[p], lct, rate, burst))
    /\ stats' = Counted(p, ~LBRejects(level, now[p], lct, rate, burst))
    /\ lock' = Released(p, ~LBRejects(level, now[p], lct, rate, burst))
    /\ pc' = [pc EXCEPT ![p] = AfterPass(p)]
    /\ now' = [now EXCEPT ![p] = 0]
    /\ UNCHANGED <<cfgVars, tmp, tat, clock, via, req, decVars, calls>>

\* LeakyBucket::pass, observed
LBDecide(p) ==
    /\ LBPass(p)
    /\ Record(p, ~LBRejects(level, now[p], lct, rate, burst))

\* --------------------------------------------------- VirtualScheduling
\* VirtualSchedulingBuilder::build, gcra.rs:203-210, over a MockClock::new(c)
InitVS ==
    /\ policy = "VS"
    /\ tolerance \in 0..MaxTolerance
    /\ gap \in 0..MaxGap
    /\ tat = 0
    /\ rate = 0 /\ burst = 0 /\ level = 0 /\ lct = 0
    /\ clock \in InitClocksVS
    /\ InitCommon

\* VirtualScheduling::forward, gcra.rs:169-171 (MockClock::forward)
ForwardVS == policy = "VS" /\ \E d \in DurationsVS : Forward(d)

\* VirtualScheduling::backward, gcra.rs:173-175 (MockClock::backward,
\* clock.rs:58-60); dur <= self.0, the subtraction does not underflow
Backward(d) ==
    /\ policy = "VS"
    /\ d <= clock
    /\ clock' = clock - d
    /\ UNCHANGED <<cfgVars, tmp, lbVars, tat, lock, pc, now, ret, via, req, decVars,
                   calls, histVars, stats>>

BackwardVS == \E d \in DurationsVS : Backward(d)

\* gcra.rs:139  let now = self.clock.now();
VSNow(p) ==
    /\ policy = "VS"
    /\ pc[p] = "clock"
    /\ now' = [now EXCEPT ![p] = clock]
    /\ pc' = [pc EXCEPT ![p] = "lock"]
    /\ UNCHANGED <<cfgVars, tmp, lbVars, tat, clock, lock, ret, via, req, decVars,
                   calls, histVars, stats>>

\* gcra.rs:140  let mut tat = self.tat.lock();
VSLock(p) ==
    /\ policy = "VS"
    /\ pc[p] = "lock"
    /\ Free(lock)
    /\ lock' = p
    /\ pc' = [pc EXCEPT ![p] = "decide"]
    /\ UNCHANGED <<cfgVars, tmp, lbVars, tat, clock, now, ret, via, req, decVars,
                   calls, histVars, stats>>

\* gcra.rs:141-147: the decision, the update, and the guard dropped on return
VSPass(p) ==
    /\ policy = "VS"
    /\ pc[p] = "decide"
    /\ lock = p
    /\ tat' = VSNextTat(tat, now[p], tolerance, gap)
    /\ ret' = Returned(p, ~VSRejects(tat, now[p], tolerance))
    /\ stats' = Counted(p, ~VSRejects(tat, now[p], tolerance))
    /\ lock' = Released(p, ~VSRejects(tat, now[p], tolerance))
    /\ pc' = [pc EXCEPT ![p] = AfterPass(p)]
    /\ now' = [now EXCEPT ![p] = 0]
    /\ UNCHANGED <<cfgVars, tmp, lbVars, clock, via, req, decVars, calls>>

\* VirtualScheduling::pass, observed
VSDecide(p) ==
    /\ VSPass(p)
    /\ Record(p, ~VSRejects(tat, now[p], tolerance))

\* ------------------------------------------------------------- decorator
\* the wrapped f of tests::test_leaky_bucket_decorate, gcra.rs:286-289,
\* |()| { v += 1; v }, applied to a request r: its captured state after the
\* call, and its response (the request it was given and the new count)
FState(cnt) == cnt + 1
FResp(cnt, r) == <<r, FState(cnt)>>

\* gcra.rs:109  Ok(f(req))
GOk(cnt, r) == <<"Ok", FResp(cnt, r)>>

\* a slip in gcra.rs:111: the request not handed back
GErrLost(r) == <<"Err", 0>>

\* gcra.rs:111  Err(req)
GErr(r) == <<"Err", r>>

\* the caller that owns the closure returned by decorate (an FnMut: it is
\* borrowed mutably for each call, so only its owner calls it, one call at
\* a time); every caller shares the policy itself
GOwner == 1

\* the owner invokes the closure returned by decorate, gcra.rs:107-108
DecorateCall(p, r) ==
    /\ p = GOwner
    /\ pc[p] = "idle"
    /\ calls < MaxCalls
    /\ calls' = calls + 1
    /\ via' = [via EXCEPT ![p] = "g"]
    /\ req' = [req EXCEPT ![p] = r]
    /\ pc' = [pc EXCEPT ![p] = IF policy = "LB" THEN "lock" ELSE "clock"]
    /\ stats' = [stats EXCEPT !.passes = 0]
    /\ UNCHANGED <<cfgVars, tmp, lbVars, tat, clock, lock, now, ret, out, v,
                   histVars>>

\* gcra.rs:108-112: the branch on what pass() returned
GReturn(p) ==
    /\ pc[p] = "gret"
    /\ IF ret[p] = TRUE
         THEN /\ v' = FState(v)
              /\ out' = GOk(v, req[p])
         ELSE /\ UNCHANGED v
              /\ out' = GErr(req[p])
    /\ pc' = [pc EXCEPT ![p] = "idle"]
    /\ ret' = [ret EXCEPT ![p] = "none"]
    /\ via' = [via EXCEPT ![p] = "pass"]
    /\ req' = [req EXCEPT ![p] = 0]
    /\ UNCHANGED <<cfgVars, tmp, lbVars, tat, clock, lock, now, calls, histVars,
                   stats>>

\* ---------------------------------------------------------- specifications
NextLB ==
    \/ ForwardLB
    \/ \E p \in Callers : PassCall(p)
    \/ \E p \in Callers : LBLock(p)
    \/ \E p \in Callers : LBNow(p)
    \/ \E p \in Callers : LBDecide(p)

Spec == InitLB /\ [][NextLB]_vars

NextVS ==
    \/ ForwardVS
    \/ \E p \in Callers : PassCall(p)
    \/ \E p \in Callers : VSNow(p)
    \/ \E p \in Callers : VSLock(p)
    \/ \E p \in Callers : VSDecide(p)

SpecVS == InitVS /\ [][NextVS]_vars

\* either policy, shared by the owner of a decorated closure and the others
InitDec == InitLB \/ InitVS

\* both policies, for what is claimed of either
InitBoth == InitLB \/ InitVS

NextBoth == NextLB \/ NextVS

SpecBoth == InitBoth /\ [][NextBoth]_vars

\* LeakyBucket::pass applied by one caller to any state (level, lct) under
\* any configuration, with the clock at or after lct
AnyLevels == 0..(MaxRate + MaxBurst + 1)
AnyTimes == {0, 500, 1000}

InitAny ==
    /\ policy = "LB"
    /\ rate \in 0..MaxRate
    /\ burst \in 0..MaxBurst
    /\ level \in AnyLevels
    /\ lct \in AnyTimes
    /\ tolerance = 0 /\ gap = 0 /\ tat = 0
    /\ clock \in {lct + d : d \in AnyTimes}
    /\ InitCommon

NextAny ==
    \/ ForwardLB
    \/ PassCall(GOwner)
    \/ LBLock(GOwner)
    \/ LBNow(GOwner)
    \/ LBDecide(GOwner)

SpecAny == InitAny /\ [][NextAny]_vars

\* the owner of g calls through g, the other callers call pass() directly
NextDec ==
    \/ ForwardLB
    \/ ForwardVS
    \/ \E p \in Callers \ {GOwner} : PassCall(p)
    \/ \E p \in Callers : LBLock(p)
    \/ \E p \in Callers : LBNow(p)
    \/ \E p \in Callers : LBPass(p) /\ UNCHANGED histVars
    \/ \E p \in Callers : VSNow(p)
    \/ \E p \in Callers : VSLock(p)
    \/ \E p \in Callers : VSPass(p) /\ UNCHANGED histVars
    \/ \E r \in Reqs : DecorateCall(GOwner, r)
    \/ GReturn(GOwner)

SpecDec == InitDec /\ [][NextDec]_vars

\* ------------------------------------------------------------------ claims
InFlight == Cardinality({p \in Callers : pc[p] # "idle"})
\* how many pass() calls have been decided
Decided == calls - InFlight
Capacity == rate + burst
\* the first k decisions of the current run are admissions, the others rejections
AdmitsExactly(k) == \A i \in 1..Len(ser.outs) : ser.outs[i] = (i <= k)

\* the authoritative rule of the specification, section 4.2
RefClamped(lv, n, l, r) == Max(0, lv - ((n - l) * r) \div MsPerSec)

\* C1: on every state (level, lct), configuration (rate, burst) and reading
\* now >= lct, LeakyBucket::pass decides and updates as the reference rule:
\* clamped = max(0, level - floor((now - lct) * rate / 1000)); reject, state
\* unchanged, if clamped >= rate + burst, else admit with level = clamped + 1
\* and lct = now.
C1_PassIsReferenceRule ==
    last.valid =>
        LET c == RefClamped(last.level0, last.now, last.lct0, rate)
        IN  IF c >= rate + burst
              THEN ~last.ok /\ level = last.level0 /\ lct = last.lct0
              ELSE last.ok /\ level = c + 1 /\ lct = last.now

\* C1 witness: an admission on a non-empty bucket whose unclamped level was
\* negative, so that the clamp at 0 decided the new level
C1_Witness ==
    /\ last.valid /\ last.ok
    /\ last.now >= last.lct0
    /\ NewLevel(last.level0, last.now, last.lct0, rate) < 0
    /\ last.level0 > 0

\* C2 as stated: from a fresh bucket, with no time elapsing between calls, the
\* first burst calls are admitted and the next one is rejected.
C2_FirstBurstCallsThenReject ==
    (ser.prev = -1 /\ ser.outs # <<>>) => AdmitsExactly(burst)

\* C2 amended: from a fresh bucket (level = burst, lct = 0) whose clock reads c,
\* with no time elapsing between calls, the first
\* min(rate + burst, rate + floor(c * rate / 1000)) calls are admitted and the
\* next one is rejected.
C2_FreshBucketAdmits ==
    (ser.prev = -1 /\ ser.outs # <<>>) =>
        AdmitsExactly(Min(rate + burst, rate + (ser.now * rate) \div MsPerSec))

\* C2 witness: a fresh bucket with burst > 0 that has admitted rate + burst
\* calls on one clock reading and rejected the next
C2_Witness ==
    /\ ser.prev = -1
    /\ burst > 0 /\ rate > 0
    /\ Len(ser.outs) = rate + burst + 1
    /\ ~ser.outs[Len(ser.outs)]
    /\ ser.outs[rate + burst]

\* C3 as stated: with rate = 0 exactly burst calls are admitted in all, the
\* first burst ones, whatever the clock does.
C3_ZeroRateAdmitsBurst ==
    (policy = "LB" /\ rate = 0 /\ last.valid) => (last.ok <=> Decided <= burst)

\* C4 as stated: with burst = 0 at most rate admissions have their clock
\* readings inside any window of 1000 ms.
C4_AtMostRatePerSecond ==
    (policy = "LB" /\ burst = 0) => Len(recent) <= rate

\* C4 amended: with burst = 0, under every interleaving, at most
\* rate + floor(999 * rate / 1000) admissions have their clock readings inside
\* any window of 1000 ms.
C4_AtMostTwiceRatePerSecond ==
    (policy = "LB" /\ burst = 0) =>
        Len(recent) <= rate + ((MsPerSec - 1) * rate) \div MsPerSec

\* C4 witness: more than rate admissions within one second, on two clock
\* readings
C4_Witness ==
    /\ policy = "LB" /\ burst = 0 /\ rate > 0
    /\ Len(recent) > rate
    /\ recent[1] < recent[Len(recent)]

\* C5: with rate > 0, when the clock has advanced by idle ms since the previous
\* call and idle * rate >= (burst + rate) * 1000, the next rate + burst calls
\* made on that one reading are admitted and the one after them is rejected.
C5_IdleReplenishes ==
    (policy = "LB" /\ rate > 0 /\ ser.prev # -1
        /\ (ser.now - ser.prev) * rate >= (burst + rate) * MsPerSec)
    => AdmitsExactly(Capacity)

\* C5 witness: after a long enough idle time, a run of rate + burst admissions
\* ended by a rejection, on a bucket that had been filled
C5_Witness ==
    /\ policy = "LB" /\ rate > 0 /\ ser.prev # -1
    /\ (ser.now - ser.prev) * rate >= (burst + rate) * MsPerSec
    /\ ser.level0 = Capacity
    /\ Len(ser.outs) = Capacity + 1
    /\ ~ser.outs[Capacity + 1]

\* C6: on a full bucket (level = rate + burst), e ms after the last admission,
\* exactly min(rate + burst, floor(e * rate / 1000)) calls made on that one
\* reading are admitted and the next one is rejected.
C6_FullBucketAdmitsLeaked ==
    (policy = "LB" /\ ser.outs # <<>> /\ ser.level0 = Capacity) =>
        AdmitsExactly(Min(Capacity, ((ser.now - ser.lct0) * rate) \div MsPerSec))

\* C6 witness: burst = 0, a full bucket, one second later: rate admissions
\* and then a rejection
C6_Witness ==
    /\ policy = "LB" /\ burst = 0 /\ rate > 0
    /\ ser.level0 = Capacity
    /\ ser.now - ser.lct0 = MsPerSec
    /\ Len(ser.outs) = rate + 1
    /\ ser.outs[rate] /\ ~ser.outs[rate + 1]

\* C7: a rejected pass() leaves the state as it was (level and lct, or TAT),
\* and the pass() calls that follow it on the same clock reading are rejected
\* too, on the same state.
C7_RejectionChangesNothing ==
    /\ (last.valid /\ ~last.ok) =>
          IF policy = "LB" THEN level = last.level0 /\ lct = last.lct0
                           ELSE tat = last.tat0
    /\ policy = "LB" =>
          \A i, j \in 1..Len(ser.outs) : (i < j /\ ~ser.outs[i]) => ~ser.outs[j]
    /\ (policy = "VS" /\ before.valid /\ ~before.ok /\ last.now = before.now) =>
          (~last.ok /\ last.tat0 = before.tat0)

\* C7 witness: a rejection taken on a reading later than lct or, for a
\* VirtualScheduling, a second rejection on one reading
C7_Witness ==
    \/ /\ policy = "LB" /\ last.valid /\ ~last.ok /\ last.now > last.lct0
       /\ Len(ser.outs) >= 2 /\ ~ser.outs[Len(ser.outs) - 1]
    \/ /\ policy = "VS" /\ before.valid /\ ~before.ok /\ last.now = before.now

\* what one return of the closure g does
GBranch(p) ==
    IF ret[p] = TRUE
      THEN v' = v + 1 /\ out' = <<"Ok", <<req[p], v + 1>>>>
      ELSE v' = v /\ out' = <<"Err", req[p]>>

\* C8: each call g(req) makes exactly one pass(); when it admits, f is invoked
\* once with req and g returns Ok(f(req)); when it rejects, f is not invoked
\* and g returns Err(req); f is invoked nowhere else, so its invocations are as
\* many as the admissions given to g.
C8_DecoratorGates ==
    /\ [][IF \E p \in Callers : pc[p] = "gret" /\ pc'[p] = "idle"
            THEN \A p \in Callers :
                    (pc[p] = "gret" /\ pc'[p] = "idle") => GBranch(p)
            ELSE v' = v /\ out' = out]_vars
    /\ [](pc[GOwner] = "gret" => stats.passes = 1 /\ ret[GOwner] \in BOOLEAN)
    /\ [](pc[GOwner] = "idle" => stats.gOk = v)
    /\ [](stats.passes <= 1)

\* C8 witness: g has admitted a call and then returned Err with the request
\* of a rejected one
C8_Witness ==
    /\ pc[GOwner] = "idle"
    /\ v >= 1
    /\ out \in {<<"Err", r>> : r \in Reqs}

\* C9: a VirtualScheduling pass() reading now is admitted exactly when
\* now + tolerance >= TAT.
C9_AdmitIffWithinTolerance ==
    (policy = "VS" /\ last.valid) =>
        (last.ok <=> last.now + tolerance >= last.tat0)

\* C9 witness: an admission exactly at TAT - tolerance, tolerance > 0
C9_Witness ==
    /\ policy = "VS" /\ last.valid /\ last.ok
    /\ tolerance > 0 /\ gap > 0
    /\ last.now + tolerance = last.tat0

\* C10: with tolerance = 0 and gap > 0, a pass() reading now >= TAT is
\* admitted; the pass() after it, reading less than gap later, is rejected, and
\* reading exactly gap later, is admitted.
C10_StrictSpacing ==
    (policy = "VS" /\ tolerance = 0 /\ gap > 0) =>
        /\ (last.valid /\ last.now >= last.tat0) => last.ok
        /\ (before.valid /\ before.now >= before.tat0 /\ last.now >= before.now)
            => /\ last.now - before.now < gap => ~last.ok
               /\ last.now - before.now = gap => last.ok

\* C10 witness: an admission at now >= TAT and the next call, exactly gap later
\* (gap > 1), admitted
C10_Witness ==
    /\ policy = "VS" /\ tolerance = 0 /\ gap > 1
    /\ before.valid /\ before.now >= before.tat0 /\ before.ok
    /\ last.now - before.now = gap
    /\ last.ok

\* C12 as stated: in both pass() bodies the clock is read with the lock held,
\* so the readings that successive decisions use, in the order the lock was
\* acquired, never decrease.
C12_ReadingsInLockOrder ==
    (before.valid /\ last.valid) => before.now <= last.now

\* C13: over pass() calls and clock advances TAT never decreases: a rejected
\* pass() leaves it unchanged, an admitted one sets it to max(TAT, now) + gap.
C13_TatNeverDecreases ==
    /\ [][tat' >= tat]_vars
    /\ [](last.valid => IF last.ok THEN tat = Max(last.tat0, last.now) + gap
                                   ELSE tat = last.tat0)

\* C13 witness: an admission taken within the tolerance, on a reading
\* earlier than TAT, that moved TAT on by gap
C13_Witness ==
    /\ policy = "VS" /\ last.valid /\ last.ok
    /\ last.now < last.tat0
    /\ gap > 0 /\ tat = last.tat0 + gap

\* C14: the first pass() on a fresh VirtualScheduling is admitted, and a
\* pass() reading now >= TAT is admitted and sets TAT = now + gap.
C14_AdmitsAtOrAfterTat ==
    policy = "VS" =>
        /\ (last.valid /\ ~before.valid) => (last.tat0 = 0 /\ last.ok)
        /\ (last.valid /\ last.now >= last.tat0) =>
              (last.ok /\ tat = last.now + gap)

\* C14 witness: after an idle period that took the clock past a TAT set by
\* earlier admissions, an admission that set TAT = now + gap
C14_Witness ==
    /\ policy = "VS" /\ before.valid /\ last.valid /\ last.ok
    /\ last.tat0 > 0 /\ last.now > last.tat0
    /\ gap > 0 /\ tolerance > 0
    /\ tat = last.now + gap

\* C17: 0 <= level <= rate + burst in every reachable state, and an admitted
\* pass() leaves level >= 1 and lct at the reading it took.
C17_LevelWithinCapacity ==
    policy = "LB" =>
        /\ 0 <= level /\ level <= Capacity
        /\ (last.valid /\ last.ok) => (level >= 1 /\ lct = last.now)

\* C17 witness: an admission that filled a bucket of capacity above 1 on a
\* reading later than the previous lct
C17_Witness ==
    /\ policy = "LB" /\ last.valid /\ last.ok
    /\ Capacity >= 2 /\ level = Capacity
    /\ last.now > last.lct0

\* ------------------------------------------------- a paced single caller
\* the caller's own clock handling: MockClock::forward takes &mut self
\* (clock.rs:54, gcra.rs:94), so the clock moves only between its calls
Quiet == \A p \in Callers : pc[p] = "idle"

CeilDiv(a, b) == (a + b - 1) \div b

\* the spacing of one call per 1/rate second, in whole milliseconds
Pace(r) == CeilDiv(MsPerSec, r)

\* what the caller advances its clock by: the pace, or a quarter second
PacedDurations(r) == {Pace(r), 250}

\* LeakyBucketBuilder::build over MockClock::new(0), rate > 0
InitPaced ==
    /\ InitLB
    /\ rate > 0
    /\ clock = 0

ForwardPaced ==
    /\ Quiet
    /\ \E d \in PacedDurations(rate) : Forward(d)

\* the caller enters pass() no sooner than one pace after its previous call
PassCallPaced(p) ==
    /\ last.valid => clock >= last.now + Pace(rate)
    /\ PassCall(p)

NextPaced ==
    \/ ForwardPaced
    \/ PassCallPaced(GOwner)
    \/ LBLock(GOwner)
    \/ LBNow(GOwner)
    \/ LBDecide(GOwner)

SpecPaced == InitPaced /\ [][NextPaced]_vars

\* C19: a caller of a LeakyBucket with rate > 0 and a clock that starts at 0
\* and never goes back, which leaves at least ceil(1000 / rate) ms between
\* one pass() and the next, is admitted every time, although each admission
\* sets lct = now and drops the fraction of a unit the interval had drained.
C19_PacedCallerAlwaysAdmitted ==
    /\ last.valid => last.ok
    /\ last.valid => level <= burst + 1

\* a paced call admitted on a bucket one unit above burst, after an interval
\* that drained a unit and a fraction
C19_Witness ==
    /\ last.valid /\ last.ok
    /\ last.lct0 > 0 /\ last.level0 = burst + 1
    /\ last.now - last.lct0 >= Pace(rate)
    /\ ((last.now - last.lct0) * rate) % MsPerSec # 0
    /\ calls >= 3
\* ------------------------------------------------ the log of admissions
\* the observer of a whole run: the readings of all admitted calls, in the
\* order of their decisions
RecordAll(p, ok) ==
    /\ recent' = IF ok THEN Append(recent, now[p]) ELSE recent
    /\ UNCHANGED <<last, before, ser>>

\* LeakyBucket::pass, logged
LBLog(p) ==
    /\ LBPass(p)
    /\ RecordAll(p, ~LBRejects(level, now[p], lct, rate, burst))

NextLog ==
    \/ ForwardLB
    \/ \E p \in Callers : \/ PassCall(p)
                          \/ LBLock(p)
                          \/ LBNow(p)
                          \/ LBLog(p)

SpecLog == InitLB /\ [][NextLog]_vars

\* the admitted calls number i..j of the log lie in a window of D ms, the
\* narrowest being the one from the i-th reading to the j-th
Window(i, j) == recent[j] - recent[i]

\* C18: in any run of a LeakyBucket whose clock never goes back, the admitted
\* pass() calls whose readings lie in one window of D ms number at most
\* rate + burst + floor(D * rate / 1000).
C18_WindowBound ==
    \A i \in 1..Len(recent) : \A j \in i..Len(recent) :
        /\ recent[i] <= recent[j]
        /\ j - i + 1 <= rate + burst + (Window(i, j) * rate) \div MsPerSec

\* a window that is not empty, holds more admissions than the capacity and
\* meets the bound
C18_Witness ==
    \E i \in 1..Len(recent) : \E j \in i..Len(recent) :
        /\ Window(i, j) > 0
        /\ j - i + 1 > rate + burst
        /\ j - i + 1 = rate + burst + (Window(i, j) * rate) \div MsPerSec
\* ------------------------------------- the log of a VirtualScheduling run
\* a tolerance wider than the gap lets a call be admitted on a reading older
\* than the one before it
MaxToleranceLog == 2

\* VirtualSchedulingBuilder::build, gcra.rs:203-210, with gap > 0
InitVSLog ==
    /\ policy = "VS"
    /\ tolerance \in 0..MaxToleranceLog
    /\ gap \in 1..MaxGap
    /\ tat = 0
    /\ rate = 0 /\ burst = 0 /\ level = 0 /\ lct = 0
    /\ clock \in InitClocksVS
    /\ InitCommon

\* VirtualScheduling::pass, logged
VSLog(p) ==
    /\ VSPass(p)
    /\ RecordAll(p, ~VSRejects(tat, now[p], tolerance))

NextVSLog ==
    \/ ForwardVS
    \/ \E p \in Callers : \/ PassCall(p)
                          \/ VSNow(p)
                          \/ VSLock(p)
                          \/ VSLog(p)

SpecVSLog == InitVSLog /\ [][NextVSLog]_vars

\* the admitted calls whose readings lie in the window from a to b
InWindow(a, b) == {k \in 1..Len(recent) : a <= recent[k] /\ recent[k] <= b}

\* C20: in any run of a VirtualScheduling with gap > 0 whose clock never goes
\* back, the admitted pass() calls whose readings lie in one window of D ms
\* number at most floor((D + tolerance) / gap) + 1, also when concurrent
\* callers decide on readings taken before they held the lock.
C20_WindowBound ==
    \A i \in 1..Len(recent) : \A j \in 1..Len(recent) :
        recent[i] <= recent[j] =>
            Cardinality(InWindow(recent[i], recent[j]))
                <= (recent[j] - recent[i] + tolerance) \div gap + 1

\* a window that meets the bound and holds a call admitted on a reading
\* older than that of the admission before it
C20_Witness ==
    \E i \in 1..Len(recent) : \E j \in 1..Len(recent) :
        /\ i < j /\ recent[i] > recent[j]
        /\ Cardinality(InWindow(recent[j], recent[i]))
               = (recent[i] - recent[j] + tolerance) \div gap + 1
\* -------------------------------------------------- a clock that steps back
\* SystemClock::now, clock.rs:22-29: SystemTime is not monotonic, a later
\* reading can be smaller than an earlier one
SkewBack(d) ==
    /\ policy = "LB"
    /\ d <= clock
    /\ clock' = clock - d
    /\ UNCHANGED <<cfgVars, tmp, lbVars, tat, lock, pc, now, ret, via, req, decVars,
                   calls, histVars, stats>>

\* the observer of the latest decision alone
RecordLast(p, ok) ==
    /\ last' = [valid |-> TRUE, now |-> now[p], ok |-> ok, level0 |-> level,
                lct0 |-> lct, tat0 |-> tat]
    /\ UNCHANGED <<before, ser, recent>>

\* gcra.rs:80 in a build with overflow checks: `now - state.lct` panics when
\* now < lct; the unwinding drops the guard and the state is as it was
LBOverflowPanic(p) ==
    /\ policy = "LB"
    /\ pc[p] = "decide"
    /\ lock = p
    /\ now[p] < lct
    /\ lock' = 0
    /\ pc' = [pc EXCEPT ![p] = "idle"]
    /\ now' = [now EXCEPT ![p] = 0]
    /\ RecordLast(p, FALSE)
    /\ UNCHANGED <<cfgVars, tmp, lbVars, tat, clock, ret, via, req, decVars,
                   calls, stats>>

\* LeakyBucket::pass (its arithmetic that of a build without overflow
\* checks), the latest decision observed
LBDecideLast(p) ==
    /\ LBPass(p)
    /\ RecordLast(p, ~LBRejects(level, now[p], lct, rate, burst))

NextSkew ==
    \/ ForwardLB
    \/ \E d \in Durations : SkewBack(d)
    \/ PassCall(GOwner)
    \/ LBLock(GOwner)
    \/ LBNow(GOwner)
    \/ LBDecideLast(GOwner)
    \/ LBOverflowPanic(GOwner)

SpecSkew == InitLB /\ [][NextSkew]_vars

\* C15 as stated: a LeakyBucket::pass whose reading is smaller than the stored
\* last_conformance_time does not admit the call and leaves level and
\* last_conformance_time as they were.
C15_RewoundReadingFailsFast ==
    (last.valid /\ last.now < last.lct0) =>
        /\ ~last.ok
        /\ level = last.level0
        /\ lct = last.lct0
\* ------------------------------------------------------------ scheduling
\* VirtualScheduling::pass, the latest decision observed
VSDecideLast(p) ==
    /\ VSPass(p)
    /\ RecordLast(p, ~VSRejects(tat, now[p], tolerance))

\* the steps of pass() that only the scheduler can delay
Step(p) == LBNow(p) \/ LBDecideLast(p) \/ VSNow(p) \/ VSDecideLast(p)

\* the step that waits for the lock
Acquire(p) == LBLock(p) \/ VSLock(p)

\* LeakyBucket::forward and VirtualScheduling::forward take &mut self
\* (gcra.rs:94, gcra.rs:169): the mock clock moves while no pass() runs
ForwardQuiet == Quiet /\ (ForwardLB \/ ForwardVS)

NextLive ==
    \/ ForwardQuiet
    \/ \E p \in Callers : \/ PassCall(p)
                          \/ LBLock(p)
                          \/ LBNow(p)
                          \/ LBDecideLast(p)
                          \/ VSNow(p)
                          \/ VSLock(p)
                          \/ VSDecideLast(p)

\* every caller inside pass() keeps being scheduled, and a caller for which
\* the lock is free again and again gets it (parking_lot's Mutex hands the
\* lock over to a waiter that has been kept out)
FairLive ==
    \A p \in Callers : WF_vars(Step(p)) /\ SF_vars(Acquire(p))

SpecLive == InitBoth /\ [][NextLive]_vars /\ FairLive

\* C16: under fair scheduling every pass() on a shared policy returns; the
\* lock is released on the admitting and on the rejecting path, so the lock
\* is free whenever no pass() is in progress and no callers block each other
\* for ever.
C16_EveryPassReturns ==
    /\ \A p \in Callers : (pc[p] # "idle") ~> (pc[p] = "idle")
    /\ [](Quiet => lock = 0)

\* a caller waits for the lock that the other caller holds, after a rejected
\* call has returned
C16_Witness ==
    /\ last.valid /\ ~last.ok
    /\ \E p \in Callers : \E q \in Callers :
          /\ p # q
          /\ pc[p] = "lock"
          /\ lock = q
          /\ pc[q] = "decide"
\* ------------------------------------------- the critical section in steps
\* the observer of the decisions taken at one clock value: the state the
\* first of them found and their outcomes in the order they were written
RecordRun(p, ok) ==
    /\ last' = [valid |-> TRUE, now |-> now[p], ok |-> ok, level0 |-> level,
                lct0 |-> lct, tat0 |-> tat]
    /\ ser' = IF last.valid /\ last.now = now[p]
                THEN [ser EXCEPT !.outs = Append(@, ok)]
                ELSE [now |-> now[p],
                      prev |-> IF last.valid THEN last.now ELSE -1,
                      level0 |-> level, lct0 |-> lct, tat0 |-> tat,
                      outs |-> <<ok>>]
    /\ UNCHANGED <<before, recent>>

\* gcra.rs:80-83: the reads of state.level and state.lct and the test
LBLoad(p) ==
    /\ policy = "LB"
    /\ pc[p] = "decide"
    /\ tmp' = [tmp EXCEPT ![p] =
                 [ok |-> ~LBRejects(level, now[p], lct, rate, burst),
                  level |-> LBNextLevel(level, now[p], lct, rate, burst),
                  lct |-> LBNextLct(level, now[p], lct, rate, burst),
                  tat |-> tat]]
    /\ pc' = [pc EXCEPT ![p] = "store"]
    /\ UNCHANGED <<cfgVars, lbVars, tat, clock, lock, now, ret, via, req,
                   decVars, calls, histVars, stats>>

\* gcra.rs:84-90: the writes of the admitting branch, the guard dropped
LBStore(p) ==
    /\ policy = "LB"
    /\ pc[p] = "store"
    /\ level' = IF tmp[p].ok THEN tmp[p].level ELSE level
    /\ lct' = IF tmp[p].ok THEN tmp[p].lct ELSE lct
    /\ ret' = Returned(p, tmp[p].ok)
    /\ stats' = Counted(p, tmp[p].ok)
    /\ lock' = Released(p, tmp[p].ok)
    /\ pc' = [pc EXCEPT ![p] = AfterPass(p)]
    /\ now' = [now EXCEPT ![p] = 0]
    /\ tmp' = [tmp EXCEPT ![p] = NoTmp]
    /\ RecordRun(p, tmp[p].ok)
    /\ UNCHANGED <<cfgVars, tat, clock, via, req, decVars, calls>>

\* gcra.rs:141: the read of *tat and the test
VSLoad(p) ==
    /\ policy = "VS"
    /\ pc[p] = "decide"
    /\ tmp' = [tmp EXCEPT ![p] =
                 [ok |-> ~VSRejects(tat, now[p], tolerance),
                  level |-> level,
                  lct |-> lct,
                  tat |-> VSNextTat(tat, now[p], tolerance, gap)]]
    /\ pc' = [pc EXCEPT ![p] = "store"]
    /\ UNCHANGED <<cfgVars, lbVars, tat, clock, lock, now, ret, via, req,
                   decVars, calls, histVars, stats>>

\* gcra.rs:142-147: the write of the admitting branch, the guard dropped
VSStore(p) ==
    /\ policy = "VS"
    /\ pc[p] = "store"
    /\ tat' = IF tmp[p].ok THEN tmp[p].tat ELSE tat
    /\ ret' = Returned(p, tmp[p].ok)
    /\ stats' = Counted(p, tmp[p].ok)
    /\ lock' = Released(p, tmp[p].ok)
    /\ pc' = [pc EXCEPT ![p] = AfterPass(p)]
    /\ now' = [now EXCEPT ![p] = 0]
    /\ tmp' = [tmp EXCEPT ![p] = NoTmp]
    /\ RecordRun(p, tmp[p].ok)
    /\ UNCHANGED <<cfgVars, lbVars, clock, via, req, decVars, calls>>

\* concurrent callers of one policy whose clock stands still while any of
\* them is inside pass()
NextFixed ==
    \/ ForwardQuiet
    \/ \E p \in Callers : \/ PassCall(p)
                          \/ LBLock(p)
                          \/ LBNow(p)
                          \/ LBLoad(p)
                          \/ LBStore(p)
                          \/ VSNow(p)
                          \/ VSLock(p)
                          \/ VSLoad(p)
                          \/ VSStore(p)

SpecFixed == InitBoth /\ [][NextFixed]_vars

\* k sequential pass() calls of a LeakyBucket at the reading n, from the
\* state (lv, l): the state they leave and their outcomes
RECURSIVE SeqLB(_, _, _, _)
SeqLB(lv, l, n, k) ==
    IF k = 0 THEN [level |-> lv, lct |-> l, outs |-> <<>>]
    ELSE LET s == SeqLB(lv, l, n, k - 1)
         IN  [level |-> LBNextLevel(s.level, n, s.lct, rate, burst),
              lct |-> LBNextLct(s.level, n, s.lct, rate, burst),
              outs |-> Append(s.outs,
                              ~LBRejects(s.level, n, s.lct, rate, burst))]

\* k sequential pass() calls of a VirtualScheduling at the reading n, from
\* the arrival time t
RECURSIVE SeqVS(_, _, _)
SeqVS(t, n, k) ==
    IF k = 0 THEN [tat |-> t, outs |-> <<>>]
    ELSE LET s == SeqVS(t, n, k - 1)
         IN  [tat |-> VSNextTat(s.tat, n, tolerance, gap),
              outs |-> Append(s.outs, ~VSRejects(s.tat, n, tolerance))]

\* C11: at one clock value, however the pass() calls of concurrent callers
\* of one policy interleave, the calls decided so far have the outcomes, and
\* leave the state, of as many sequential pass() calls from the state the
\* first of them found: no update is lost and none decides on a state older
\* than the one its predecessor left.
C11_InterleavingsAreSequential ==
    ser.outs # <<>> =>
        IF policy = "LB"
          THEN LET s == SeqLB(ser.level0, ser.lct0, ser.now, Len(ser.outs))
               IN  level = s.level /\ lct = s.lct /\ ser.outs = s.outs
          ELSE LET s == SeqVS(ser.tat0, ser.now, Len(ser.outs))
               IN  tat = s.tat /\ ser.outs = s.outs

\* at one clock value calls were admitted and then rejected, and one caller
\* waits for the lock while the other is between its read and its write
C11_Witness ==
    /\ Len(ser.outs) >= 3
    /\ ser.outs[1] /\ ~ser.outs[Len(ser.outs)]
    /\ \E p \in Callers : \E q \in Callers :
          /\ p # q
          /\ pc[p] = "lock"
          /\ pc[q] = "store"
          /\ lock = q
====
